---- MODULE Spec2Model ----
(***************************************************************************)
(* Streaming ASR client of the TEN agent (ByteDance extension): the frame  *)
(* header builder, the receive loop and its transcript reconciliation, the *)
(* synchronous audio slicer, stop, and the stand-alone websocket client.   *)
(*                                                                         *)
(* Coroutines are modelled at the granularity of asyncio: a step runs from *)
(* one await to the next, and at every await the other coroutines of the   *)
(* event loop may run.                                                     *)
(***************************************************************************)
EXTENDS Integers, Sequences, FiniteSets, TLC

\* ------------------------------------------------------------------ bounds
\* What one session is given: connection attempts (uuid4 draws), frames the
\* backend delivers and audio bytes the host delivers, counted together.
MaxInputs == 4

\* ------------------------------------------------- asr_client.py constants
PROTOCOL_VERSION == 1
DEFAULT_HEADER_SIZE == 1
CLIENT_FULL_REQUEST == 1
CLIENT_AUDIO_ONLY_REQUEST == 2
SERVER_FULL_RESPONSE == 9
SERVER_ACK == 11
SERVER_ERROR_RESPONSE == 15
NO_SEQUENCE == 0
POS_SEQUENCE == 1
NEG_SEQUENCE == 2
NEG_SEQUENCE_1 == 3
NO_SERIALIZATION == 0
JSON == 1
THRIFT == 3
CUSTOM_TYPE == 15
NO_COMPRESSION == 0
GZIP == 1
CUSTOM_COMPRESSION == 15
\* AsrWsClient.success_code, the literal the receive loops compare with
SUCCESS_CODE == 1000
\* ByteDanceASRExtension.seg_duration (ms)
SEG_DURATION == 100

\* a | b on naturals
RECURSIVE BitOr(_, _)
BitOr(a, b) ==
    IF a = 0 THEN b
    ELSE IF b = 0 THEN a
    ELSE (IF a % 2 = 1 \/ b % 2 = 1 THEN 1 ELSE 0) + 2 * BitOr(a \div 2, b \div 2)

\* the message type written to the low nibble and the flags to the high one
generate_header_SwappedNibbles(version, message_type, flags, serial_method, compression_type, reserved_data, extension_header) ==
    << BitOr(version * 16, (Len(extension_header) \div 4) + 1),
       BitOr(flags * 16, message_type),
       BitOr(serial_method * 16, compression_type),
       reserved_data >> \o extension_header
\* generate_header: the four fixed bytes, then the extension bytes
generate_header(version, message_type, flags, serial_method, compression_type, reserved_data, extension_header) ==
    LET header_size == (Len(extension_header) \div 4) + 1
    IN  << BitOr(version * 16, header_size),
           BitOr(message_type * 16, flags),
           BitOr(serial_method * 16, compression_type),
           reserved_data >> \o extension_header

generate_full_default_header ==
    generate_header(PROTOCOL_VERSION, CLIENT_FULL_REQUEST, NO_SEQUENCE,
                    JSON, GZIP, 0, << >>)

generate_audio_default_header ==
    generate_header(PROTOCOL_VERSION, CLIENT_AUDIO_ONLY_REQUEST, NO_SEQUENCE,
                    JSON, GZIP, 0, << >>)

generate_last_audio_default_header ==
    generate_header(PROTOCOL_VERSION, CLIENT_AUDIO_ONLY_REQUEST, NEG_SEQUENCE,
                    JSON, GZIP, 0, << >>)

\* the nibbles a reader of the header sees (parse_response, lines 65-70)
HeaderMessageType(h) == h[2] \div 16
HeaderFlags(h) == h[2] % 16

\* gzip.compress: the two magic bytes, the data, and a trailer that holds
\* the length of the data (the compression itself is not modelled)
Gzip(bytes) == << 31, 139 >> \o bytes \o << Len(bytes) % 256 >>
\* gzip.decompress raises on bytes that are no complete gzip member; it
\* returns b'' on b''
GunzipRaises(z) ==
    /\ z # << >>
    /\ \/ Len(z) < 3
       \/ z[1] # 31
       \/ z[2] # 139
       \/ z[Len(z)] # (Len(z) - 3) % 256
Gunzip(z) == IF z = << >> THEN << >> ELSE SubSeq(z, 3, Len(z) - 1)

\* json.dumps / json.loads on an object whose content is the bytes v: the
\* braces around the content; loads raises on a text that is no object
JsonDumps(v) == << 123 >> \o v \o << 125 >>
JsonLoadsRaises(t) == Len(t) < 2 \/ t[1] # 123 \/ t[Len(t)] # 125
JsonLoads(t) == SubSeq(t, 2, Len(t) - 1)

\* ------------------------------------------------------------------- texts
\* A text is a sequence of characters; " " stands for any whitespace.
Empty == << >>
Blank == << " " >>
TextA == << "a" >>
Hello == << "h", "e", "l", "l", "o" >>
Texts == { Empty, Blank, TextA, Hello }

RECURSIVE LStrip(_)
LStrip(t) == IF t # << >> /\ Head(t) = " " THEN LStrip(Tail(t)) ELSE t
RECURSIVE RStrip(_)
RStrip(t) ==
    IF t # << >> /\ t[Len(t)] = " " THEN RStrip(SubSeq(t, 1, Len(t) - 1)) ELSE t
\* str.strip()
Strip(t) == RStrip(LStrip(t))

\* ------------------------------------------------- frames from the backend
\* An utterance object of a final result.
Utterance(t, d) == [text |-> t, definite |-> d]
OneUtterance == << Utterance(Hello, TRUE) >>
TwoUtterances == << Utterance(TextA, FALSE), Utterance(Hello, TRUE) >>

\* A result object: its 'text' key may be missing.
Elem(ht, t, u) == [has_text |-> ht, text |-> t, utterances |-> u]

\* The 'result' value of a payload: missing, a list, a single object, or a
\* value that is neither (a string, a number).
ResultValue(k, es) == [kind |-> k, elems |-> es]
NoResult == ResultValue("absent", << >>)
ListOf(e) == ResultValue("list", << e >>)
DictOf(t) == ResultValue("dict", << Elem(TRUE, t, << >>) >>)
\* {"result":[{"utterances":[{"text":"hello","definite":true}]}]}
ScenarioResult == ListOf(Elem(FALSE, Empty, OneUtterance))
ResultValues ==
    { NoResult,
      ResultValue("other", << >>),
      ResultValue("list", << >>),
      ScenarioResult,
      ListOf(Elem(TRUE, Hello, OneUtterance)),
      ListOf(Elem(TRUE, TextA, TwoUtterances)),
      ListOf(Elem(TRUE, Blank, << >>)),
      DictOf(TextA), DictOf(Hello), DictOf(Blank), DictOf(Empty),
      ResultValue("dict", << Elem(FALSE, Empty, << >>) >>) }

\* The JSON value of a payload: an object with an optional 'code' and an
\* optional 'result', or a value that is no object at all.
BACKEND_ERROR == 45000000
JsonObject(hc, c, r) == [isdict |-> TRUE, has_code |-> hc, code |-> c, result |-> r]
NotAnObject == [isdict |-> FALSE, has_code |-> FALSE, code |-> 0, result |-> NoResult]
JsonValues ==
    { JsonObject(TRUE, SUCCESS_CODE, r) : r \in ResultValues }
        \cup { JsonObject(TRUE, BACKEND_ERROR, NoResult),
               JsonObject(TRUE, BACKEND_ERROR, DictOf(TextA)),
               JsonObject(FALSE, 0, ListOf(Elem(TRUE, Hello, OneUtterance))),
               NotAnObject }

\* A frame as recv() returns it, seen through the fields parse_response reads:
\* the message type nibble, whether an ack carries the 8 bytes of seq and
\* size, and whether the payload bytes decompress and deserialize (to json).
Frame(mt, long, ok, v) == [message_type |-> mt, long |-> long, decodes |-> ok, json |-> v]
Frames ==
    { Frame(SERVER_FULL_RESPONSE, TRUE, TRUE, v) : v \in JsonValues }
        \cup { Frame(SERVER_ERROR_RESPONSE, TRUE, TRUE, JsonObject(FALSE, 0, NoResult)),
               Frame(SERVER_ACK, TRUE, TRUE, JsonObject(TRUE, SUCCESS_CODE, DictOf(TextA))),
               Frame(SERVER_ACK, FALSE, TRUE, NotAnObject),
               Frame(CLIENT_FULL_REQUEST, TRUE, TRUE, NotAnObject),
               Frame(SERVER_FULL_RESPONSE, TRUE, FALSE, NotAnObject) }
NoFrame == Frame(0, FALSE, FALSE, NotAnObject)

\* The frames given to ByteDanceWebSocketClient._listen, which reads only the
\* code and the presence of a result: one frame for each of its branches.
ClientFrames ==
    { Frame(SERVER_FULL_RESPONSE, TRUE, TRUE, JsonObject(TRUE, SUCCESS_CODE, DictOf(TextA))),
      Frame(SERVER_FULL_RESPONSE, TRUE, TRUE, JsonObject(TRUE, SUCCESS_CODE, NoResult)),
      Frame(SERVER_FULL_RESPONSE, TRUE, TRUE, JsonObject(TRUE, BACKEND_ERROR, DictOf(TextA))),
      Frame(SERVER_FULL_RESPONSE, TRUE, TRUE, JsonObject(TRUE, BACKEND_ERROR, NoResult)),
      Frame(SERVER_FULL_RESPONSE, TRUE, TRUE, JsonObject(FALSE, 0, ListOf(Elem(TRUE, Hello, OneUtterance)))),
      Frame(SERVER_FULL_RESPONSE, TRUE, TRUE, NotAnObject),
      Frame(SERVER_ACK, FALSE, TRUE, NotAnObject),
      Frame(SERVER_FULL_RESPONSE, TRUE, FALSE, NotAnObject) }

\* parse_response, from the dispatch on the message type on: the result dict
\* (has_payload: 'payload_msg' in result), or the exception that gzip or json
\* raises on bytes that do not decode.
ParseFrame(res) ==
    LET payload_msg_is_none ==
            \/ res.message_type \notin { SERVER_FULL_RESPONSE, SERVER_ACK, SERVER_ERROR_RESPONSE }
            \/ res.message_type = SERVER_ACK /\ ~res.long
    IN  IF payload_msg_is_none
        THEN [raised |-> FALSE, has_payload |-> FALSE, payload_msg |-> NotAnObject]
        ELSE IF ~res.decodes
        THEN [raised |-> TRUE, has_payload |-> FALSE, payload_msg |-> NotAnObject]
        ELSE [raised |-> FALSE, has_payload |-> TRUE, payload_msg |-> res.json]

\* --------------------------------------------------------------- the state
VARIABLES
    impl,           \* the class the host runs: "extension" or "client"
    \* ByteDanceASRExtension fields
    started,        \* on_start has run
    client,         \* self.client is set (an AsrWsClient)
    chunk_size,     \* self.chunk_size
    connected,      \* self.connected
    stopped,        \* self.stopped
    ws,             \* self.ws: a connection id, 0 for None
    reqid,          \* self.reqid: 0 for None
    buffer,         \* self.buffer: the bytes not yet sliced
    last_text,      \* self.last_text
    stream_id,      \* self.stream_id
    \* the _start_listen task
    lpc,            \* where the task is suspended
    lws,            \* the connection whose recv() or send() it awaits
    lpend,          \* the event handed to send_data and not yet delivered
    \* the on_audio_frame and on_stop coroutines
    apc,            \* "idle" or "sending": awaiting ws.send of a chunk
    aws,            \* the connection that send was called on
    spc,            \* "idle", "closing": awaiting ws.close(), or "done"
    \* the world outside
    conns,          \* per connection ever opened: "open", "closed", "dropped"
    sent,           \* the frames written to the sockets, in order
    last_event,     \* the event delivered to the consumer last
    nevents,        \* events delivered to the consumer
    nextReq,        \* the next value uuid4 yields
    \* history
    audioIn,        \* bytes the host has delivered so far
    lres,           \* the frame recv() returned last
    nrecv,          \* frames recv() has returned
    ntasks,         \* _start_listen tasks created
    nfailIn,        \* exceptions the receive loop caught while not stopped
    nfailOut,       \* exceptions caught around connect while not stopped
    nerr,           \* error payloads surfaced (logged, or given to 'error')
    rejected,       \* the host delivered audio that was not buffered
    sendFailed,     \* a send of audio has raised
    run,            \* the current run of results with the same text
    \* ByteDanceWebSocketClient fields and coroutines
    callbacks,      \* the events a callback is registered for (on)
    kws,            \* self.ws: a connection id, 0 for None
    kconnected,     \* self.connected
    kstart,         \* where start() is suspended, "idle" when none runs
    kstartws,       \* the connection start() sends the initial frame on
    kreqid,         \* the reqid local to the running start()
    klisten,        \* the live _listen tasks: where each is suspended
    ksend,          \* "idle" or "sending": send() awaits ws.send
    ksendws,        \* the connection that send was called on
    kclose,         \* "idle" or "closing": close() awaits ws.close()
    kclosed,        \* close() has been called
    kdown,          \* close() has been called and start() not since
    \* the frame codec on its own: generate_header and parse_response
    cin,            \* the arguments the frame at hand was built from
    cframe,         \* the bytes of the frame at hand, << >> when there is none
    cout,           \* what parse_response made of the frame
    \* AsrWsClient.slice_data on its own
    slicer,         \* the generator: its arguments, its offset, where it is
    slices,         \* the (chunk, last) pairs it has yielded so far
    \* SonioxASRExtension fields, its transcription thread and its host
    sclient,        \* self.client is set (a SpeechClient)
    running,        \* self.running
    audio_queue,    \* self.audio_queue: the frames put and not yet taken
    sstream_id,     \* self.stream_id
    sthread,        \* the transcription thread: "none", "iter", "get" or "ended"
    sframes,        \* audio frames the host has delivered
    staken,         \* frames iter_audio has yielded to the transcriber
    sfull           \* times put_nowait has raised queue.Full

extVars ==
    << started, client, chunk_size, connected, stopped, ws, reqid, buffer,
       last_text, stream_id >>
listenVars == << lpc, lws, lpend >>
audioVars == << apc, aws >>
outVars == << last_event, nevents >>
failVars == << nfailIn, nfailOut >>
histVars ==
    << audioIn, lres, nrecv, ntasks, failVars, nerr, rejected, sendFailed, run >>
worldVars == << conns, sent, outVars, nextReq >>
clientVars ==
    << callbacks, kws, kconnected, kstart, kstartws, kreqid, klisten, ksend,
       ksendws, kclose, kclosed, kdown >>
extensionVars == << extVars, listenVars, audioVars, spc >>
sliceVars == << slicer, slices >>
codecVars == << cin, cframe, cout, sliceVars >>
sessionVars == << impl, extensionVars, clientVars, worldVars, histVars >>
sonioxVars ==
    << sclient, running, audio_queue, sstream_id, sthread, sframes, staken, sfull >>
vars == << sessionVars, codecVars, sonioxVars >>

Event(t, f, sid, src) == [text |-> t, is_final |-> f, stream_id |-> sid, src |-> src]
NoEvent == Event(Empty, FALSE, 0, "none")
NoRun == [on |-> FALSE, text |-> Empty, start |-> Empty, len |-> 0, emits |-> 0, failed |-> FALSE]

\* The inputs the session has used up.
Used == (nextReq - 1) + nrecv + audioIn

\* ByteDanceASRExtension.__init__
InitExtension ==
    /\ started = FALSE
    /\ client = FALSE
    /\ chunk_size = 0
    /\ connected = FALSE
    /\ stopped = FALSE
    /\ ws = 0
    /\ reqid = 0
    /\ buffer = << >>
    /\ last_text = Empty
    /\ stream_id = -1
    /\ lpc = "idle"
    /\ lws = 0
    /\ lpend = NoEvent
    /\ apc = "idle"
    /\ aws = 0
    /\ spc = "idle"

InitWorld ==
    /\ conns = << >>
    /\ sent = << >>
    /\ last_event = NoEvent
    /\ nevents = 0
    /\ nextReq = 1
    /\ audioIn = 0
    /\ lres = NoFrame
    /\ nrecv = 0
    /\ ntasks = 0
    /\ nfailIn = 0
    /\ nfailOut = 0
    /\ nerr = 0
    /\ rejected = FALSE
    /\ sendFailed = FALSE
    /\ run = NoRun

\* ----------------------------------------------------------------- on_start
Credentials == { "", "key" }
BitsChoices == { 8, 16 }
SAMPLE_RATE == 10
CHANNELS == 1

\* lines 84-86: int(channels * (bits // 8) * sample_rate * seg_duration / 1000)
ChunkSize(bits, channels, sample_rate) ==
    ((channels * (bits \div 8) * sample_rate) * SEG_DURATION) \div 1000

\* only the api_key is looked at
MissingCredential_KeyOnly(api_key, token, cluster) == api_key = ""
\* line 70: not all([api_key, token, cluster])
MissingCredential(api_key, token, cluster) == api_key = "" \/ token = "" \/ cluster = ""

OnStart(api_key, token, cluster, bits) ==
    /\ impl = "extension"
    /\ ~started
    /\ spc = "idle"
    /\ started' = TRUE
    /\ IF MissingCredential(api_key, token, cluster)
       THEN UNCHANGED << client, chunk_size, lpc, ntasks >>
       ELSE /\ client' = TRUE
            /\ chunk_size' = ChunkSize(bits, CHANNELS, SAMPLE_RATE)
            /\ lpc' = "start"
            /\ ntasks' = ntasks + 1
    /\ UNCHANGED << impl, codecVars, sonioxVars, clientVars, connected, stopped, ws, reqid, buffer, last_text,
                    stream_id, lws, lpend, audioVars, spc, worldVars, audioIn,
                    lres, nrecv, failVars, nerr, rejected, sendFailed, run >>

\* ------------------------------------------------------- the _start_listen task
\* The frame _start_listen builds from the request envelope (lines 92-98).
FullClientRequest(c, id) ==
    [conn |-> c, header |-> generate_full_default_header, payload |-> Gzip(JsonDumps(<< id >>))]

\* the failure is counted, and the task ends without a retry
InnerHandler_GivesUp ==
    /\ nfailOut' = nfailOut
    /\ lpc' = "done"
    /\ nfailIn' = IF stopped THEN nfailIn ELSE nfailIn + 1
\* lines 148-153: the handler of the receive loop. Where the task goes, and
\* whether it counts a failure it will retry.
InnerHandler ==
    /\ nfailOut' = nfailOut
    /\ IF stopped
       THEN /\ lpc' = "done"
            /\ nfailIn' = nfailIn
       ELSE /\ lpc' = "backoff_in"
            /\ nfailIn' = nfailIn + 1

\* lines 155-159: the handler around connect and handshake.
OuterHandler ==
    /\ nfailIn' = nfailIn
    /\ IF stopped
       THEN /\ lpc' = "done"
            /\ nfailOut' = nfailOut
       ELSE /\ lpc' = "backoff_out"
            /\ nfailOut' = nfailOut + 1

\* line 112: the loop test, then line 114: recv() on the current self.ws.
ContinueLoop ==
    IF stopped
    THEN /\ lpc' = "done"
         /\ lws' = lws
    ELSE /\ lpc' = "recv"
         /\ lws' = ws

\* the reqid drawn once and kept for every later attempt
NewReqid_Kept == IF reqid = 0 THEN nextReq ELSE reqid
\* line 92: self.reqid = str(uuid.uuid4())
NewReqid == nextReq

\* lines 92-101: a fresh reqid, the request envelope, then await connect.
StartListen ==
    /\ lpc = "start"
    /\ Used < MaxInputs
    /\ reqid' = NewReqid
    /\ nextReq' = nextReq + 1
    /\ IF client
       THEN /\ lpc' = "connecting"
            /\ UNCHANGED failVars
       ELSE OuterHandler
    /\ UNCHANGED << impl, codecVars, sonioxVars, clientVars, started, client, chunk_size, connected, stopped, ws,
                    buffer, last_text, stream_id, lws, lpend, audioVars, spc,
                    conns, sent, outVars, audioIn, lres, nrecv, ntasks, nerr,
                    rejected, sendFailed, run >>

\* lines 101-107: connect returned; self.ws is the new connection and the
\* initial frame is written to it.
ConnectOk ==
    /\ lpc = "connecting"
    /\ LET c == Len(conns) + 1
       IN  /\ conns' = Append(conns, "open")
           /\ ws' = c
           /\ lws' = c
           /\ sent' = Append(sent, FullClientRequest(c, reqid))
    /\ lpc' = "handshake"
    /\ UNCHANGED << impl, codecVars, sonioxVars, clientVars, started, client, chunk_size, connected, stopped, reqid,
                    buffer, last_text, stream_id, lpend, audioVars, spc, outVars,
                    nextReq, histVars >>

\* line 101 raises.
ConnectFail ==
    /\ lpc = "connecting"
    /\ OuterHandler
    /\ UNCHANGED << impl, codecVars, sonioxVars, clientVars, extVars, lws, lpend, audioVars, spc, worldVars, audioIn,
                    lres, nrecv, ntasks, nerr, rejected, sendFailed, run >>

\* lines 107-114: the send of the initial frame returns (connected = True and
\* the loop is entered) or raises on a connection that is no longer open.
HandshakeDone ==
    /\ lpc = "handshake"
    /\ IF conns[lws] = "open"
       THEN /\ connected' = TRUE
            /\ ContinueLoop
            /\ UNCHANGED failVars
       ELSE /\ OuterHandler
            /\ UNCHANGED << connected, lws >>
    /\ UNCHANGED << impl, codecVars, sonioxVars, clientVars, started, client, chunk_size, stopped, ws, reqid, buffer,
                    last_text, stream_id, lpend, audioVars, spc, worldVars,
                    audioIn, lres, nrecv, ntasks, nerr, rejected, sendFailed, run >>

\* lines 130-137: text and is_final of a 'result' value.
ElemText(e) == IF e.has_text THEN e.text ELSE Empty
ResultText(r) ==
    IF r.kind = "list" /\ Len(r.elems) > 0 THEN ElemText(r.elems[1])
    ELSE IF r.kind = "dict" THEN ElemText(r.elems[1])
    ELSE Empty
\* is_final read off the first utterance's 'definite' instead
ResultFinal_FromDefinite(r) ==
    /\ r.kind = "list"
    /\ Len(r.elems) > 0
    /\ r.elems[1].utterances # << >>
    /\ r.elems[1].utterances[1].definite
ResultFinal(r) ==
    IF r.kind = "list" /\ Len(r.elems) > 0 THEN TRUE
    ELSE FALSE

\* a payload that carries a result is taken as data whatever its code
IsErrorPayload_ResultWins(payload) ==
    (~payload.has_code \/ payload.code # SUCCESS_CODE) /\ payload.result.kind = "absent"
\* line 120: payload.get('code') != 1000
IsErrorPayload(payload) == ~payload.has_code \/ payload.code # SUCCESS_CODE

\* the comparison with last_text left out
TextChanged_NoDedup(text, last) == text # Empty
\* line 140: only a changed, non-empty text is sent
TextChanged(text, last) == text # Empty /\ text # last

\* line 209: _send_text returns at once on a text that strips to nothing
SendTextSkips(text) == Strip(text) = Empty

\* the value the extension was constructed with
EmittedStreamId_Initial == -1
\* line 144: stream_id=self.stream_id, read as _send_text is called
EmittedStreamId == stream_id

\* How a result with text t moves the run of equal texts.
RunAfter(t) ==
    IF run.on /\ run.text = t
    THEN [run EXCEPT !.len = @ + 1]
    ELSE [on |-> TRUE, text |-> t, start |-> last_text, len |-> 1, emits |-> 0, failed |-> FALSE]

\* lines 114-147: recv() returns a frame and the loop body runs to its next
\* await: send_data inside _send_text, or recv() again.
RecvFrame(res) ==
    /\ lpc = "recv"
    /\ conns[lws] = "open"
    /\ Used < MaxInputs
    /\ lres' = res
    /\ nrecv' = nrecv + 1
    /\ LET result == ParseFrame(res)
           payload == result.payload_msg
           text == ResultText(payload.result)
           is_final == ResultFinal(payload.result)
       IN  IF result.raised \/ (result.has_payload /\ ~payload.isdict)
           THEN /\ InnerHandler
                /\ UNCHANGED << last_text, lws, lpend, run, nerr >>
           ELSE IF ~result.has_payload
           THEN /\ ContinueLoop
                /\ UNCHANGED << last_text, lpend, failVars, run, nerr >>
           ELSE IF IsErrorPayload(payload)
           THEN /\ nerr' = nerr + 1
                /\ ContinueLoop
                /\ UNCHANGED << last_text, lpend, failVars, run >>
           ELSE IF payload.result.kind = "absent"
           THEN /\ ContinueLoop
                /\ UNCHANGED << last_text, lpend, failVars, run, nerr >>
           ELSE IF ~TextChanged(text, last_text)
           THEN /\ ContinueLoop
                /\ run' = RunAfter(text)
                /\ UNCHANGED << last_text, lpend, failVars, nerr >>
           ELSE IF SendTextSkips(text)
           THEN /\ last_text' = text
                /\ ContinueLoop
                /\ run' = RunAfter(text)
                /\ UNCHANGED << lpend, failVars, nerr >>
           ELSE /\ lpend' = Event(text, is_final, EmittedStreamId, payload.result.kind)
                /\ lpc' = "send_text"
                /\ run' = RunAfter(text)
                /\ UNCHANGED << last_text, lws, failVars, nerr >>
    /\ UNCHANGED << impl, codecVars, sonioxVars, clientVars, started, client, chunk_size, connected, stopped, ws,
                    reqid, buffer, stream_id, audioVars, spc, worldVars, audioIn,
                    ntasks, rejected, sendFailed >>

\* line 114 raises: the connection was closed or dropped.
RecvFail ==
    /\ lpc = "recv"
    /\ conns[lws] # "open"
    /\ InnerHandler
    /\ UNCHANGED << impl, codecVars, sonioxVars, clientVars, extVars, lws, lpend, audioVars, spc, worldVars, audioIn,
                    lres, nrecv, ntasks, nerr, rejected, sendFailed, run >>

\* lines 220 and 147: send_data returns, the consumer has the event, and
\* last_text is updated.
SendTextOk ==
    /\ lpc = "send_text"
    /\ last_event' = lpend
    /\ nevents' = nevents + 1
    /\ last_text' = lpend.text
    /\ lpend' = NoEvent
    /\ run' = [run EXCEPT !.emits = @ + 1]
    /\ ContinueLoop
    /\ UNCHANGED << impl, codecVars, sonioxVars, clientVars, started, client, chunk_size, connected, stopped, ws,
                    reqid, buffer, stream_id, audioVars, spc, conns, sent,
                    nextReq, audioIn, lres, nrecv, ntasks, failVars, nerr,
                    rejected, sendFailed >>

\* line 220 raises: the event is not delivered and the handler of the
\* receive loop runs.
SendTextFail ==
    /\ lpc = "send_text"
    /\ lpend' = NoEvent
    /\ run' = [run EXCEPT !.failed = TRUE]
    /\ InnerHandler
    /\ UNCHANGED << impl, codecVars, sonioxVars, clientVars, extVars, lws, audioVars, spc, worldVars, audioIn, lres,
                    nrecv, ntasks, nerr, rejected, sendFailed >>

\* lines 151-153 and 158-159: the sleep ends and the next task is created;
\* the old one falls out of its loop.
Backoff ==
    /\ lpc \in { "backoff_in", "backoff_out" }
    /\ lpc' = "start"
    /\ ntasks' = ntasks + 1
    /\ UNCHANGED << impl, codecVars, sonioxVars, clientVars, extVars, lws, lpend, audioVars, spc, worldVars, audioIn,
                    lres, nrecv, failVars, nerr, rejected, sendFailed, run >>

\* ------------------------------------------------------------ on_audio_frame
\* The bytes of the host's frames are numbered in arrival order.
RECURSIVE Bytes(_, _)
Bytes(from, n) == IF n = 0 THEN << >> ELSE << from >> \o Bytes(from + 1, n - 1)

\* lines 188-191: an audio-only frame around the compressed chunk.
AudioOnlyRequest(c, chunk) ==
    [conn |-> c, header |-> generate_audio_default_header, payload |-> Gzip(chunk)]

IsAudioFrame(f) == HeaderMessageType(f.header) = CLIENT_AUDIO_ONLY_REQUEST
AudioSent == SelectSeq(sent, IsAudioFrame)

\* the buffer must hold more than a chunk
HasChunk_Strict(b) == Len(b) > chunk_size
\* line 183: len(self.buffer) >= self.chunk_size
HasChunk(b) == Len(b) >= chunk_size

\* lines 183-197: the slicing loop from its test to its next await, on
\* buffer b. A chunk is cut off the buffer before the send is attempted; a
\* send that raises at once (self.ws is None, or the connection is not open)
\* clears connected and leaves the loop.
SliceLoop(b) ==
    IF HasChunk(b)
    THEN LET chunk == SubSeq(b, 1, chunk_size)
             rest == SubSeq(b, chunk_size + 1, Len(b))
         IN  /\ buffer' = rest
             /\ IF ws = 0 \/ conns[ws] # "open"
                THEN /\ connected' = FALSE
                     /\ sendFailed' = TRUE
                     /\ apc' = "idle"
                     /\ aws' = 0
                     /\ sent' = sent
                ELSE /\ Len(AudioSent) < MaxInputs
                     /\ sent' = Append(sent, AudioOnlyRequest(ws, chunk))
                     /\ apc' = "sending"
                     /\ aws' = ws
                     /\ UNCHANGED << connected, sendFailed >>
    ELSE /\ buffer' = b
         /\ apc' = "idle"
         /\ aws' = 0
         /\ UNCHANGED << connected, sent, sendFailed >>

StreamIds == { 1, 2 }

\* only the socket is looked at
NotConnected_SocketOnly == ws = 0
\* line 163: not self.ws or not self.connected
NotConnected == ws = 0 \/ ~connected

\* lines 161-193: the host delivers a frame of n bytes; has_sid is whether
\* the frame carries the stream_id property. The host delivers no frame
\* once on_stop has returned.
OnAudioFrame(n, has_sid, sid) ==
    /\ impl = "extension"
    /\ apc = "idle"
    /\ spc # "done"
    /\ Used + n <= MaxInputs
    /\ audioIn' = audioIn + n
    /\ IF NotConnected \/ n = 0 \/ ~has_sid
       THEN /\ rejected' = (rejected \/ n > 0)
            /\ UNCHANGED << stream_id, buffer, connected, sent, audioVars, sendFailed >>
       ELSE /\ stream_id' = sid
            /\ SliceLoop(buffer \o Bytes(audioIn + 1, n))
            /\ rejected' = rejected
    /\ UNCHANGED << impl, codecVars, sonioxVars, clientVars, started, client, chunk_size, stopped, ws, reqid,
                    last_text, listenVars, spc, conns, outVars, nextReq, lres,
                    nrecv, ntasks, failVars, nerr, run >>

\* lines 193-197: the pending send returns and the loop goes on, or it
\* raises because its connection is no longer open.
AudioSendDone ==
    /\ apc = "sending"
    /\ IF conns[aws] = "open"
       THEN SliceLoop(buffer)
       ELSE /\ connected' = FALSE
            /\ sendFailed' = TRUE
            /\ apc' = "idle"
            /\ aws' = 0
            /\ UNCHANGED << buffer, sent >>
    /\ UNCHANGED << impl, codecVars, sonioxVars, clientVars, started, client, chunk_size, stopped, ws, reqid,
                    last_text, stream_id, listenVars, spc, conns, outVars,
                    nextReq, audioIn, lres, nrecv, ntasks, failVars, nerr,
                    rejected, run >>

\* ------------------------------------------------------------------ on_stop
\* lines 199-203: stopped is set; an existing connection is closed, which
\* the coroutine awaits.
OnStop ==
    /\ impl = "extension"
    /\ spc # "closing"
    /\ stopped' = TRUE
    /\ IF ws # 0
       THEN /\ conns' = [conns EXCEPT ![ws] = "closed"]
            /\ spc' = "closing"
            /\ client' = client
       ELSE /\ conns' = conns
            /\ spc' = "done"
            /\ client' = FALSE
    /\ UNCHANGED << impl, codecVars, sonioxVars, clientVars, started, chunk_size, connected, ws, reqid, buffer,
                    last_text, stream_id, listenVars, audioVars, sent, outVars,
                    nextReq, histVars >>

\* lines 204-206: close() returns; the references are cleared.
StopClosed ==
    /\ spc = "closing"
    /\ ws' = 0
    /\ client' = FALSE
    /\ spc' = "done"
    /\ UNCHANGED << impl, codecVars, sonioxVars, clientVars, started, chunk_size, connected, stopped, reqid, buffer,
                    last_text, stream_id, listenVars, audioVars, worldVars,
                    histVars >>

\* ---------------------------------------------------------------- the network
\* An open connection is lost: the backend closes it or the transport fails.
ConnDrop(c) ==
    /\ c \in { ws, lws, aws, kws, kstartws, ksendws } \cup { klisten[i].conn : i \in 1..Len(klisten) }
    /\ c # 0
    /\ conns[c] = "open"
    /\ conns' = [conns EXCEPT ![c] = "dropped"]
    /\ UNCHANGED << impl, codecVars, sonioxVars, extensionVars, clientVars, sent, outVars, nextReq, histVars >>

\* -------------------------------------------------- ByteDanceWebSocketClient
AllCallbacks == { "open", "close", "error", "result" }

\* ByteDanceWebSocketClient.__init__
InitClient ==
    /\ kws = 0
    /\ kconnected = FALSE
    /\ kstart = "idle"
    /\ kstartws = 0
    /\ kreqid = 0
    /\ klisten = << >>
    /\ ksend = "idle"
    /\ ksendws = 0
    /\ kclose = "idle"
    /\ kclosed = FALSE
    /\ kdown = FALSE

Remove(seq, i) == SubSeq(seq, 1, i - 1) \o SubSeq(seq, i + 1, Len(seq))
ListenTask(pc, c) == [pc |-> pc, conn |-> c]

\* lines 202-216: start() draws a reqid, builds the initial frame, closes a
\* connection it still holds and connects.
KStart ==
    /\ impl = "client"
    /\ kstart = "idle"
    /\ Used < MaxInputs
    /\ kreqid' = nextReq
    /\ nextReq' = nextReq + 1
    /\ kdown' = FALSE
    /\ IF kws # 0
       THEN /\ conns' = [conns EXCEPT ![kws] = "closed"]
            /\ kstart' = "closing_old"
       ELSE /\ conns' = conns
            /\ kstart' = "connecting"
    /\ UNCHANGED << impl, codecVars, sonioxVars, extensionVars, callbacks, kws, kconnected, kstartws,
                    klisten, ksend, ksendws, kclose, kclosed, sent, outVars,
                    histVars >>

\* line 214 returns.
KStartOldClosed ==
    /\ kstart = "closing_old"
    /\ kstart' = "connecting"
    /\ UNCHANGED << impl, codecVars, sonioxVars, extensionVars, callbacks, kws, kconnected, kstartws,
                    kreqid, klisten, ksend, ksendws, kclose, kclosed, kdown, worldVars,
                    histVars >>

\* lines 230-233: the handler of start(): the 'error' callback, if any.
KStartExcept ==
    kstart' = IF "error" \in callbacks THEN "cb_error" ELSE "idle"

\* lines 216-222: connect returned; the initial frame is written.
KConnectOk ==
    /\ kstart = "connecting"
    /\ LET c == Len(conns) + 1
       IN  /\ conns' = Append(conns, "open")
           /\ kws' = c
           /\ kstartws' = c
           /\ sent' = Append(sent, FullClientRequest(c, kreqid))
    /\ kstart' = "handshake"
    /\ UNCHANGED << impl, codecVars, sonioxVars, extensionVars, callbacks, kconnected, kreqid, klisten,
                    ksend, ksendws, kclose, kclosed, kdown, outVars, nextReq, histVars >>

\* line 216 raises.
KConnectFail ==
    /\ kstart = "connecting"
    /\ KStartExcept
    /\ UNCHANGED << impl, codecVars, sonioxVars, extensionVars, callbacks, kws, kconnected, kstartws,
                    kreqid, klisten, ksend, ksendws, kclose, kclosed, kdown, worldVars,
                    histVars >>

\* lines 222-229: the initial send returns: connected, the 'open' callback,
\* then the _listen task; or it raises.
KHandshakeDone ==
    /\ kstart = "handshake"
    /\ IF conns[kstartws] = "open"
       THEN /\ kconnected' = TRUE
            /\ IF "open" \in callbacks
               THEN /\ kstart' = "cb_open"
                    /\ klisten' = klisten
               ELSE /\ kstart' = "idle"
                    /\ klisten' = Append(klisten, ListenTask("new", 0))
       ELSE /\ KStartExcept
            /\ UNCHANGED << kconnected, klisten >>
    /\ UNCHANGED << impl, codecVars, sonioxVars, extensionVars, callbacks, kws, kstartws, kreqid, ksend,
                    ksendws, kclose, kclosed, kdown, worldVars, histVars >>

\* lines 226-229 and 232-233: the callback start() awaits returns.
KStartCallbackDone ==
    /\ kstart \in { "cb_open", "cb_error" }
    /\ kstart' = "idle"
    /\ klisten' = IF kstart = "cb_open" THEN Append(klisten, ListenTask("new", 0)) ELSE klisten
    /\ UNCHANGED << impl, codecVars, sonioxVars, extensionVars, callbacks, kws, kconnected, kstartws,
                    kreqid, ksend, ksendws, kclose, kclosed, kdown, worldVars, histVars >>

\* lines 267-271: the handler of _listen: connected is cleared, the 'close'
\* callback runs, the task ends.
KListenExcept(i) ==
    /\ kconnected' = FALSE
    /\ klisten' = IF "close" \in callbacks
                  THEN [klisten EXCEPT ![i] = ListenTask("cb_close", 0)]
                  ELSE Remove(klisten, i)

\* lines 252-254: the loop test, then recv() on the current self.ws.
KListenLoop(i) ==
    IF ~kconnected
    THEN /\ klisten' = Remove(klisten, i)
         /\ kconnected' = kconnected
    ELSE IF kws = 0
    THEN KListenExcept(i)
    ELSE /\ klisten' = [klisten EXCEPT ![i] = ListenTask("recv", kws)]
         /\ kconnected' = kconnected

\* A new task runs for the first time, or the callback it awaits returns.
KListenRun(i) ==
    /\ i \in 1..Len(klisten)
    /\ klisten[i].pc \in { "new", "cb", "cb_close" }
    /\ IF klisten[i].pc = "cb_close"
       THEN /\ klisten' = Remove(klisten, i)
            /\ kconnected' = kconnected
       ELSE KListenLoop(i)
    /\ UNCHANGED << impl, codecVars, sonioxVars, extensionVars, callbacks, kws, kstart, kstartws, kreqid,
                    ksend, ksendws, kclose, kclosed, kdown, worldVars, histVars >>

\* lines 254-266: recv() returns a frame; the payload goes to the 'error' or
\* the 'result' callback.
KRecvFrame(i, res) ==
    /\ i \in 1..Len(klisten)
    /\ klisten[i].pc = "recv"
    /\ conns[klisten[i].conn] = "open"
    /\ Used < MaxInputs
    /\ lres' = res
    /\ nrecv' = nrecv + 1
    /\ LET result == ParseFrame(res)
           payload == result.payload_msg
       IN  IF result.raised \/ (result.has_payload /\ ~payload.isdict)
           THEN /\ KListenExcept(i)
                /\ UNCHANGED << nerr, outVars >>
           ELSE IF ~result.has_payload
           THEN /\ KListenLoop(i)
                /\ UNCHANGED << nerr, outVars >>
           ELSE IF IsErrorPayload(payload)
           THEN /\ UNCHANGED outVars
                /\ IF "error" \in callbacks
                   THEN /\ nerr' = nerr + 1
                        /\ klisten' = [klisten EXCEPT ![i] = ListenTask("cb", 0)]
                        /\ kconnected' = kconnected
                   ELSE /\ nerr' = nerr
                        /\ KListenLoop(i)
           ELSE IF payload.result.kind # "absent" /\ "result" \in callbacks
           THEN /\ last_event' = Event(Empty, FALSE, 0, payload.result.kind)
                /\ nevents' = nevents + 1
                /\ klisten' = [klisten EXCEPT ![i] = ListenTask("cb", 0)]
                /\ UNCHANGED << nerr, kconnected >>
           ELSE /\ KListenLoop(i)
                /\ UNCHANGED << nerr, outVars >>
    /\ UNCHANGED << impl, codecVars, sonioxVars, extensionVars, callbacks, kws, kstart, kstartws, kreqid,
                    ksend, ksendws, kclose, kclosed, kdown, conns, sent, nextReq,
                    audioIn, ntasks, failVars, rejected, sendFailed, run >>

\* line 254 raises: the connection was closed or dropped.
KRecvFail(i) ==
    /\ i \in 1..Len(klisten)
    /\ klisten[i].pc = "recv"
    /\ conns[klisten[i].conn] # "open"
    /\ KListenExcept(i)
    /\ UNCHANGED << impl, codecVars, sonioxVars, extensionVars, callbacks, kws, kstart, kstartws, kreqid,
                    ksend, ksendws, kclose, kclosed, kdown, worldVars, histVars >>

\* lines 235-245: send() of n audio bytes, up to its await.
KSend(n) ==
    /\ impl = "client"
    /\ ksend = "idle"
    /\ n >= 1
    /\ Used + n <= MaxInputs
    /\ audioIn' = audioIn + n
    /\ IF ~kconnected
       THEN /\ rejected' = TRUE
            /\ UNCHANGED << kconnected, sendFailed, sent, ksend, ksendws >>
       ELSE IF kws = 0 \/ conns[kws] # "open"
       THEN /\ kconnected' = FALSE
            /\ sendFailed' = TRUE
            /\ UNCHANGED << rejected, sent, ksend, ksendws >>
       ELSE /\ sent' = Append(sent, AudioOnlyRequest(kws, Bytes(audioIn + 1, n)))
            /\ ksend' = "sending"
            /\ ksendws' = kws
            /\ UNCHANGED << kconnected, sendFailed, rejected >>
    /\ UNCHANGED << impl, codecVars, sonioxVars, extensionVars, callbacks, kws, kstart, kstartws, kreqid,
                    klisten, kclose, kclosed, kdown, conns, outVars, nextReq, lres,
                    nrecv, ntasks, failVars, nerr, run >>

\* lines 245-249: the pending send returns True, or raises and clears connected.
KSendDone ==
    /\ ksend = "sending"
    /\ ksend' = "idle"
    /\ ksendws' = 0
    /\ IF conns[ksendws] = "open"
       THEN UNCHANGED << kconnected, sendFailed >>
       ELSE /\ kconnected' = FALSE
            /\ sendFailed' = TRUE
    /\ UNCHANGED << impl, codecVars, sonioxVars, extensionVars, callbacks, kws, kstart, kstartws, kreqid,
                    klisten, kclose, kclosed, kdown, worldVars, audioIn, lres, nrecv,
                    ntasks, failVars, nerr, rejected, run >>

\* lines 276-279: close() clears connected and closes the connection it holds.
KClose ==
    /\ impl = "client"
    /\ kclose = "idle"
    /\ kconnected' = FALSE
    /\ kclosed' = TRUE
    /\ kdown' = TRUE
    /\ IF kws # 0
       THEN /\ conns' = [conns EXCEPT ![kws] = "closed"]
            /\ kclose' = "closing"
       ELSE /\ conns' = conns
            /\ kclose' = "idle"
    /\ UNCHANGED << impl, codecVars, sonioxVars, extensionVars, callbacks, kws, kstart, kstartws, kreqid,
                    klisten, ksend, ksendws, sent, outVars, nextReq, histVars >>

\* line 280: ws.close() returned; the reference is cleared.
KCloseDone ==
    /\ kclose = "closing"
    /\ kws' = 0
    /\ kclose' = "idle"
    /\ UNCHANGED << impl, codecVars, sonioxVars, extensionVars, callbacks, kconnected, kstart, kstartws,
                    kreqid, klisten, ksend, ksendws, kclosed, kdown, worldVars, histVars >>

\* -------------------------------------------------------- SonioxASRExtension
\* the argument of queue.Queue() at line 43: none, which is maxsize = 0, a
\* queue without bound
QUEUE_MAXSIZE == 0
MaxFrames == 4

\* SonioxASRExtension.__init__
InitSoniox ==
    /\ sclient = FALSE
    /\ running = FALSE
    /\ audio_queue = << >>
    /\ sstream_id = -1
    /\ sthread = "none"
    /\ sframes = 0
    /\ staken = 0
    /\ sfull = 0

\* queue.Queue.full(): a queue of maxsize <= 0 is never full
QueueFull(q, maxsize) == maxsize > 0 /\ Len(q) >= maxsize

\* lines 116-129: on_start builds the client, sets running and starts the
\* transcription thread, which enters iter_audio.
SOnStart ==
    /\ impl = "soniox"
    /\ sthread = "none"
    /\ sclient' = TRUE
    /\ running' = TRUE
    /\ sthread' = "iter"
    /\ UNCHANGED << audio_queue, sstream_id, sframes, staken, sfull, sessionVars, codecVars >>

\* lines 138-164: the host delivers a frame of n bytes with stream id sid
\* and the end_of_speech property.
SOnAudioFrame(n, sid, speech_end) ==
    /\ impl = "soniox"
    /\ sframes < MaxFrames
    /\ sframes' = sframes + 1
    /\ IF ~sclient \/ ~running \/ n = 0
       THEN UNCHANGED << sstream_id, running, audio_queue, sfull >>
       ELSE /\ sstream_id' = sid
            /\ running' = IF speech_end THEN FALSE ELSE running
            /\ IF QueueFull(audio_queue, QUEUE_MAXSIZE)
               THEN /\ sfull' = sfull + 1
                    /\ audio_queue' = audio_queue
               ELSE /\ audio_queue' = Append(audio_queue, [id |-> sframes + 1, len |-> n])
                    /\ sfull' = sfull
    /\ UNCHANGED << sclient, sthread, staken, sessionVars, codecVars >>

\* lines 48-50: running is true at the loop test: iter_audio calls get, which
\* waits for a frame up to its timeout.
SIterTest ==
    /\ sthread = "iter"
    /\ running
    /\ sthread' = "get"
    /\ UNCHANGED << sclient, running, audio_queue, sstream_id, sframes, staken, sfull, sessionVars, codecVars >>

\* lines 50-51: get returns the oldest frame of the queue and iter_audio
\* yields it, whatever running is by then.
SIterAudio ==
    /\ sthread = "get"
    /\ audio_queue # << >>
    /\ audio_queue' = Tail(audio_queue)
    /\ staken' = staken + 1
    /\ sthread' = "iter"
    /\ UNCHANGED << sclient, running, sstream_id, sframes, sfull, sessionVars, codecVars >>

\* lines 52-54: the queue stayed empty for the timeout: queue.Empty, and the
\* loop goes on.
SIterEmpty ==
    /\ sthread = "get"
    /\ audio_queue = << >>
    /\ sthread' = "iter"
    /\ UNCHANGED << sclient, running, audio_queue, sstream_id, sframes, staken, sfull, sessionVars, codecVars >>

\* lines 48 and 55-56: running is false at the loop test: iter_audio yields
\* b'' and ends, whatever the queue still holds.
SIterEnd ==
    /\ sthread = "iter"
    /\ ~running
    /\ sthread' = "ended"
    /\ UNCHANGED << sclient, running, audio_queue, sstream_id, sframes, staken, sfull, sessionVars, codecVars >>

\* lines 131-136: on_stop clears running.
SOnStop ==
    /\ impl = "soniox"
    /\ running
    /\ running' = FALSE
    /\ UNCHANGED << sclient, audio_queue, sstream_id, sthread, sframes, staken, sfull, sessionVars, codecVars >>

\* ------------------------------------------------------------ the frame codec
NoInput == [on |-> FALSE]
NoOutput == [on |-> FALSE]
NoSlicer == [pc |-> "none"]
InitCodec ==
    /\ cin = NoInput
    /\ cframe = << >>
    /\ cout = NoOutput
    /\ slicer = NoSlicer
    /\ slices = << >>

\* Python slices of a byte string: b[:n] and b[n:]
Take(b, n) == SubSeq(b, 1, IF n < Len(b) THEN n ELSE Len(b))
Drop(b, n) == SubSeq(b, n + 1, Len(b))

\* int.from_bytes(b, "big", signed=False) and signed=True
RECURSIVE FromBytes(_)
FromBytes(b) ==
    IF b = << >> THEN 0 ELSE FromBytes(SubSeq(b, 1, Len(b) - 1)) * 256 + b[Len(b)]
RECURSIVE Pow256(_)
Pow256(n) == IF n = 0 THEN 1 ELSE 256 * Pow256(n - 1)
FromBytesSigned(b) ==
    IF b # << >> /\ b[1] >= 128 THEN FromBytes(b) - Pow256(Len(b)) ELSE FromBytes(b)
\* n.to_bytes(4, 'big')
ToBytes4(n) ==
    << (n \div 16777216) % 256, (n \div 65536) % 256, (n \div 256) % 256, n % 256 >>

\* the result dict is returned with the keys that were set
ParseResult(hs, s, hc, c, hp, msg, size) ==
    [has_seq |-> hs, seq |-> s, has_code |-> hc, code |-> c,
     has_payload |-> hp, payload_msg |-> msg, payload_size |-> size]
EmptyResult == ParseResult(FALSE, 0, FALSE, 0, FALSE, << >>, 0)

\* the exception parse_response ends with, "" when it returns
ParseOutcome(err, mt, fl, sm, mc, hsz, r) ==
    [on |-> TRUE, raised |-> err, message_type |-> mt, flags |-> fl,
     serialization_method |-> sm, message_compression |-> mc,
     header_size |-> hsz, result |-> r]

\* every message type that is no full response is parsed as an ack
MessageKind_ElseAck(message_type) ==
    IF message_type = SERVER_FULL_RESPONSE THEN "full"
    ELSE IF message_type = SERVER_ERROR_RESPONSE THEN "error"
    ELSE "ack"
\* lines 78-91: the dispatch on the message type
MessageKind(message_type) ==
    IF message_type = SERVER_FULL_RESPONSE THEN "full"
    ELSE IF message_type = SERVER_ACK THEN "ack"
    ELSE IF message_type = SERVER_ERROR_RESPONSE THEN "error"
    ELSE "none"

\* parse_response on the bytes res. Indexing a byte that is not there raises;
\* slices never do. The locals of lines 65-70 are kept with the outcome.
parse_response(res) ==
    IF Len(res) < 4
    THEN ParseOutcome("IndexError", 0, 0, 0, 0, 0, EmptyResult)
    ELSE LET header_size == res[1] % 16
             message_type == res[2] \div 16
             flags == res[2] % 16
             serialization_method == res[3] \div 16
             message_compression == res[3] % 16
             payload == Drop(res, header_size * 4)
             kind == MessageKind(message_type)
             has_seq == kind = "ack"
             seq == IF has_seq THEN FromBytesSigned(Take(payload, 4)) ELSE 0
             has_code == kind = "error"
             code == IF has_code THEN FromBytes(Take(payload, 4)) ELSE 0
             is_none == kind = "none" \/ (kind = "ack" /\ Len(payload) < 8)
             payload_size ==
                 IF kind = "full" THEN FromBytesSigned(Take(payload, 4))
                 ELSE FromBytes(Take(Drop(payload, 4), 4))
             raw == IF kind = "full" THEN Drop(payload, 4) ELSE Drop(payload, 8)
             unzipped == IF message_compression = GZIP THEN Gunzip(raw) ELSE raw
             err == IF message_compression = GZIP /\ GunzipRaises(raw) THEN "BadGzipFile"
                    ELSE IF serialization_method = JSON /\ JsonLoadsRaises(unzipped)
                    THEN "JSONDecodeError"
                    ELSE ""
             payload_msg == IF serialization_method = JSON THEN JsonLoads(unzipped) ELSE unzipped
             Outcome(e, r) ==
                 ParseOutcome(e, message_type, flags, serialization_method,
                              message_compression, header_size, r)
         IN  IF is_none
             THEN Outcome("", ParseResult(has_seq, seq, has_code, code, FALSE, << >>, 0))
             ELSE IF err # ""
             THEN Outcome(err, EmptyResult)
             ELSE Outcome("", ParseResult(has_seq, seq, has_code, code, TRUE, payload_msg, payload_size))

\* What a sender does to a payload value before framing it (extension.py
\* line 94, for the choices the header can name).
Serialize(serial_method, v) == IF serial_method = JSON THEN JsonDumps(v) ELSE v
Compress(compression_type, b) == IF compression_type = GZIP THEN Gzip(b) ELSE b

\* The frame: the header, the payload length in 4 big-endian bytes, the payload.
FrameBytes(header, payload_bytes) == header \o ToBytes4(Len(payload_bytes)) \o payload_bytes

\* The arguments frames are built from.
MaxPayloadLen == 2
MaxKept == 9
UNKNOWN_TYPE == 12
MessageTypes ==
    { CLIENT_FULL_REQUEST, CLIENT_AUDIO_ONLY_REQUEST, SERVER_FULL_RESPONSE,
      SERVER_ACK, SERVER_ERROR_RESPONSE, UNKNOWN_TYPE }
SequenceFlags == { NO_SEQUENCE, POS_SEQUENCE, NEG_SEQUENCE, NEG_SEQUENCE_1 }
SerialMethods == { NO_SERIALIZATION, JSON, THRIFT, CUSTOM_TYPE }
CompressionTypes == { NO_COMPRESSION, GZIP, CUSTOM_COMPRESSION }
ExtensionLengths == { 0, 1, 4, 60, 124 }
ExtensionHeader(n) == [i \in 1..n |-> 0]

\* A frame is built from its arguments.
EncodeFrame(mt, fl, sm, ct, n, len) ==
    /\ impl = "codec"
    /\ LET header == generate_header(PROTOCOL_VERSION, mt, fl, sm, ct, 0, ExtensionHeader(n))
           payload_bytes == Compress(ct, Serialize(sm, Bytes(1, len)))
       IN  /\ cin' = [on |-> TRUE, message_type |-> mt, flags |-> fl, serial_method |-> sm,
                      compression_type |-> ct, extension_header |-> ExtensionHeader(n),
                      payload |-> Bytes(1, len), header |-> header,
                      payload_bytes |-> payload_bytes, truncated |-> FALSE]
           /\ cframe' = FrameBytes(header, payload_bytes)
    /\ cout' = NoOutput
    /\ UNCHANGED << sliceVars, sessionVars, sonioxVars >>

\* The transport delivers only the first k bytes of the frame.
TruncateFrame(k) ==
    /\ cin.on
    /\ ~cout.on
    /\ ~cin.truncated
    /\ k < Len(cframe)
    /\ cframe' = Take(cframe, k)
    /\ cin' = [cin EXCEPT !.truncated = TRUE]
    /\ UNCHANGED << cout, sliceVars, sessionVars, sonioxVars >>

\* parse_response runs on the bytes at hand.
DecodeFrame ==
    /\ cin.on
    /\ ~cout.on
    /\ cout' = parse_response(cframe)
    /\ UNCHANGED << cin, cframe, sliceVars, sessionVars, sonioxVars >>

CodecInit ==
    /\ impl = "codec"
    /\ callbacks = {}
    /\ InitExtension
    /\ InitClient
    /\ InitWorld
    /\ InitCodec
    /\ InitSoniox

\* No frame is at hand: one is built, from any of the arguments.
BuildFrame ==
    /\ ~cin.on
    /\ \E mt \in MessageTypes, fl \in SequenceFlags, sm \in SerialMethods,
          ct \in CompressionTypes, n \in ExtensionLengths, len \in 0..MaxPayloadLen :
           EncodeFrame(mt, fl, sm, ct, n, len)

CodecNext ==
    \/ BuildFrame
    \/ \E k \in 0..MaxKept : TruncateFrame(k)
    \/ DecodeFrame

CodecSpec == CodecInit /\ [][CodecNext]_vars

\* ------------------------------------------------- AsrWsClient.slice_data
\* The arguments slice_data is called with: every byte string over two byte
\* values up to MaxDataLen bytes, and every chunk_size from 1 to MaxChunkSize.
MaxDataLen == 5
MaxChunkSize == 3
ByteStrings == UNION { [1..n -> { 1, 2 }] : n \in 0..MaxDataLen }

\* line 163: the loop test
MoreChunks(offset, size, data_len) == offset + size < data_len
\* the offset moves by a single byte
NextOffset_ByOne(offset, size) == offset + 1
\* line 165: offset += chunk_size
NextOffset(offset, size) == offset + size
\* lines 164, 167: data[from: to]
Slice(data, from, to) == SubSeq(data, from + 1, IF to < Len(data) THEN to ELSE Len(data))

\* lines 160-162: slice_data(data, chunk_size) is called; the generator is
\* created with offset 0.
SliceData(data, size) ==
    /\ impl = "slicer"
    /\ slicer.pc = "none"
    /\ slicer' = [pc |-> "run", data |-> data, chunk_size |-> size, offset |-> 0]
    /\ slices' = << >>
    /\ UNCHANGED << cin, cframe, cout, sessionVars, sonioxVars >>

\* lines 163-167: the generator runs to its next yield: a full chunk with
\* False while the loop test holds, else the rest with True, after which
\* the generator is exhausted.
SliceYield ==
    /\ slicer.pc = "run"
    /\ LET data == slicer.data
           size == slicer.chunk_size
           offset == slicer.offset
       IN  IF MoreChunks(offset, size, Len(data))
           THEN /\ slices' = Append(slices, [chunk |-> Slice(data, offset, offset + size),
                                            last |-> FALSE])
                /\ slicer' = [slicer EXCEPT !.offset = NextOffset(offset, size)]
           ELSE /\ slices' = Append(slices, [chunk |-> Slice(data, offset, Len(data)),
                                            last |-> TRUE])
                /\ slicer' = [slicer EXCEPT !.pc = "done"]
    /\ UNCHANGED << cin, cframe, cout, sessionVars, sonioxVars >>

SliceInit ==
    /\ impl = "slicer"
    /\ callbacks = {}
    /\ InitExtension
    /\ InitClient
    /\ InitWorld
    /\ InitCodec
    /\ InitSoniox

SliceNext ==
    \/ \E data \in ByteStrings, size \in 1..MaxChunkSize : SliceData(data, size)
    \/ SliceYield

SliceSpec == SliceInit /\ [][SliceNext]_vars

SonioxInit ==
    /\ impl = "soniox"
    /\ callbacks = {}
    /\ InitExtension
    /\ InitClient
    /\ InitWorld
    /\ InitCodec
    /\ InitSoniox

SonioxNext ==
    \/ SOnStart
    \/ \E n \in 0..2, sid \in StreamIds, e \in BOOLEAN : SOnAudioFrame(n, sid, e)
    \/ SIterTest
    \/ SIterAudio
    \/ SIterEmpty
    \/ SIterEnd
    \/ SOnStop

SonioxSpec == SonioxInit /\ [][SonioxNext]_vars

\* ------------------------------------------------------------ specification
Init ==
    /\ impl \in { "extension", "client" }
    /\ callbacks \in IF impl = "client" THEN { {}, AllCallbacks } ELSE { {} }
    /\ InitExtension
    /\ InitClient
    /\ InitWorld
    /\ InitCodec
    /\ InitSoniox

Next ==
    \/ \E k \in Credentials, t \in Credentials, c \in Credentials, b \in BitsChoices :
           OnStart(k, t, c, b)
    \/ StartListen
    \/ ConnectOk
    \/ ConnectFail
    \/ HandshakeDone
    \/ \E res \in Frames : RecvFrame(res)
    \/ RecvFail
    \/ SendTextOk
    \/ SendTextFail
    \/ Backoff
    \/ \E n \in 0..MaxInputs, h \in BOOLEAN, sid \in StreamIds : OnAudioFrame(n, h, sid)
    \/ AudioSendDone
    \/ OnStop
    \/ StopClosed
    \/ \E c \in 1..MaxInputs : ConnDrop(c)
    \/ KStart
    \/ KStartOldClosed
    \/ KConnectOk
    \/ KConnectFail
    \/ KHandshakeDone
    \/ KStartCallbackDone
    \/ \E i \in 1..MaxInputs : KListenRun(i)
    \/ \E i \in 1..MaxInputs, res \in ClientFrames : KRecvFrame(i, res)
    \/ \E i \in 1..MaxInputs : KRecvFail(i)
    \/ \E n \in 1..MaxInputs : KSend(n)
    \/ KSendDone
    \/ KClose
    \/ KCloseDone

Spec == Init /\ [][Next]_vars

\* The extension with its connection and on_audio_frame, under every sample
\* width the configuration may carry, the widths below a byte included.
AllBitsChoices == { 4, 8, 16 }
ChunkerInit ==
    /\ impl = "extension"
    /\ callbacks = {}
    /\ InitExtension
    /\ InitClient
    /\ InitWorld
    /\ InitCodec
    /\ InitSoniox

ChunkerNext ==
    \/ \E b \in AllBitsChoices : OnStart("key", "key", "key", b)
    \/ StartListen
    \/ ConnectOk
    \/ HandshakeDone
    \/ \E n \in 0..MaxInputs, h \in BOOLEAN, sid \in StreamIds : OnAudioFrame(n, h, sid)
    \/ AudioSendDone
    \/ \E c \in 1..MaxInputs : ConnDrop(c)

ChunkerSpec == ChunkerInit /\ [][ChunkerNext]_vars

\* The extension with its _start_listen task and on_stop alone, the host
\* delivering no audio. The event loop runs a sleeping task when its sleep
\* is over and a created task when it is ready.
RetryInit ==
    /\ impl = "extension"
    /\ callbacks = {}
    /\ InitExtension
    /\ InitClient
    /\ InitWorld
    /\ InitCodec
    /\ InitSoniox

RetryNext ==
    \/ \E k \in Credentials, t \in Credentials, c \in Credentials, b \in BitsChoices :
           OnStart(k, t, c, b)
    \/ StartListen
    \/ ConnectOk
    \/ ConnectFail
    \/ HandshakeDone
    \/ \E res \in Frames : RecvFrame(res)
    \/ RecvFail
    \/ SendTextOk
    \/ SendTextFail
    \/ Backoff
    \/ OnStop
    \/ StopClosed
    \/ \E c \in 1..MaxInputs : ConnDrop(c)

RetrySpec == RetryInit /\ [][RetryNext]_vars /\ WF_vars(Backoff) /\ WF_vars(StartListen)

\* ------------------------------------------------------------------ claims
\* The receive loop waits for the next frame: every result received so far
\* has run through the loop body and its delivery.
LoopAtRecv == impl = "extension" /\ lpc = "recv"

C2_Finality ==
    /\ (impl = "extension" /\ lpc = "send_text") =>
           LET r == lres.json.result
           IN  /\ lres.json.code = SUCCESS_CODE
               /\ lpend.src = r.kind
               /\ (r.kind = "list" /\ r.elems[1].utterances # << >>) => lpend.is_final
               /\ r.kind = "dict" => ~lpend.is_final
    /\ (impl = "extension" /\ nevents > 0) =>
           /\ last_event.src = "list" => last_event.is_final
           /\ last_event.src = "dict" => ~last_event.is_final
           /\ last_event.src \in { "list", "dict" }

\* C2 witness: a final event from a list whose first utterance is not
\* definite has been delivered.
C2_Witness ==
    /\ impl = "extension"
    /\ nevents = 1
    /\ last_event = Event(TextA, TRUE, last_event.stream_id, "list")
    /\ lres.json.result = ListOf(Elem(TRUE, TextA, TwoUtterances))

\* C3: the scenario frame, received first (last_text is empty), yields one
\* event with text "hello" and is_final = true.
ScenarioFrame ==
    Frame(SERVER_FULL_RESPONSE, TRUE, TRUE, JsonObject(TRUE, SUCCESS_CODE, ScenarioResult))
C3_UtteranceScenario ==
    (impl = "extension" /\ nrecv = 1 /\ lres = ScenarioFrame) =>
        \/ lpc = "send_text" /\ lpend.text = Hello /\ lpend.is_final
        \/ nevents = 1 /\ last_event.text = Hello /\ last_event.is_final

\* A frame that decodes to an object whose code is present and not 1000.
IsErrorFrame(f) ==
    LET result == ParseFrame(f)
    IN  /\ result.has_payload
        /\ result.payload_msg.isdict
        /\ result.payload_msg.has_code
        /\ result.payload_msg.code # SUCCESS_CODE

\* C4: a step that receives a frame whose code is not 1000 counts an error
\* (the log of the extension, the 'error' callback of the client when one is
\* registered), hands no event to the consumer and leaves last_text, the
\* pending event and the run of equal texts as they are, also when the
\* payload carries a result.
C4_ErrorNotData ==
    [][ (nrecv' = nrecv + 1 /\ IsErrorFrame(lres')) =>
            /\ last_text' = last_text
            /\ lpend' = lpend
            /\ last_event' = last_event
            /\ nevents' = nevents
            /\ run' = run
            /\ lpc' # "send_text"
            /\ (impl = "extension" \/ "error" \in callbacks) => nerr' = nerr + 1 ]_vars

\* C4 witness: after "hello" was delivered, an error payload that carries a
\* result arrived.
C4_Witness ==
    /\ impl = "extension"
    /\ nerr = 1
    /\ last_text = Hello
    /\ nevents = 1
    /\ lres = Frame(SERVER_FULL_RESPONSE, TRUE, TRUE, JsonObject(TRUE, BACKEND_ERROR, DictOf(TextA)))

\* The audio bytes written to the backend, in send order.
RECURSIVE ChunkBytes(_)
ChunkBytes(fs) ==
    IF fs = << >> THEN << >> ELSE Gunzip(Head(fs).payload) \o ChunkBytes(Tail(fs))
SentAudio == ChunkBytes(AudioSent)
\* on_stop has returned and no on_audio_frame is suspended.
SessionEnded == impl = "extension" /\ spc = "done" /\ apc = "idle"

\* C5: when the session has ended, the chunks sent, concatenated in send
\* order, are the bytes of the incoming frames (all of them accepted): none
\* lost, none twice, none out of order.
C5_StreamReproduced ==
    (SessionEnded /\ ~rejected) => SentAudio = Bytes(1, audioIn)

\* C6: every audio chunk but the last carries the positive-sequence flag, the
\* last one carries it or the negative-sequence flag, and when the session
\* has ended the last chunk sent is the one terminal chunk.
C6_SequenceFlags ==
    impl = "extension" =>
       \A i \in 1..Len(AudioSent) :
           /\ HeaderMessageType(AudioSent[i].header) = CLIENT_AUDIO_ONLY_REQUEST
           /\ HeaderFlags(AudioSent[i].header) =
                  IF i < Len(AudioSent) THEN POS_SEQUENCE
                  ELSE IF SessionEnded THEN NEG_SEQUENCE
                  ELSE HeaderFlags(AudioSent[i].header)
           /\ HeaderFlags(AudioSent[i].header) \in { POS_SEQUENCE, NEG_SEQUENCE }

\* C7: when the session has ended, every byte that was left in the buffer
\* has been written to the backend.
C7_RemainderFlushed ==
    SessionEnded =>
        \A i \in 1..Len(buffer) : \E j \in 1..Len(SentAudio) : SentAudio[j] = buffer[i]

\* The initial frames written so far, one per handshake.
IsFullRequest(f) == HeaderMessageType(f.header) = CLIENT_FULL_REQUEST
Handshakes == SelectSeq(sent, IsFullRequest)
InBackoff == lpc \in { "backoff_in", "backoff_out" }

\* C8: every failure met while not stopped is followed by one backoff and one
\* new task, never more: the tasks created are the first one plus one per
\* failure whose backoff has ended, a task in backoff does not receive, each
\* attempt draws one reqid, newer than every reqid before it, and no two
\* handshakes carry the same reqid.
C8_OneReconnectFreshReqid ==
    impl = "extension" =>
        /\ ntasks = (IF lpc # "idle" THEN 1 ELSE 0) + nfailIn + nfailOut
                        - (IF InBackoff THEN 1 ELSE 0)
        /\ ntasks = (nextReq - 1) + (IF lpc = "start" THEN 1 ELSE 0)
        /\ lpc \notin { "idle", "start" } => reqid = nextReq - 1
        /\ \A i, j \in 1..Len(Handshakes) :
               i < j => /\ Handshakes[i].payload # Handshakes[j].payload
                        /\ Handshakes[i].conn # Handshakes[j].conn

\* C8 witness: the receive loop failed once and the next task has connected
\* with a second reqid and is receiving.
C8_Witness ==
    /\ impl = "extension"
    /\ nfailIn = 1
    /\ nfailOut = 0
    /\ ntasks = 2
    /\ Len(Handshakes) = 2
    /\ lpc = "recv"
    /\ ~stopped

\* C9: a step of the unstopped receive loop that receives an error-response
\* or a payload whose code is not 1000 leaves the loop for the backoff and
\* counts one failure.
C9_ErrorFrameReconnects ==
    [][ ( /\ impl = "extension"
          /\ nrecv' = nrecv + 1
          /\ ~stopped
          /\ IsErrorFrame(lres') \/ lres'.message_type = SERVER_ERROR_RESPONSE ) =>
            /\ lpc' = "backoff_in"
            /\ nfailIn' = nfailIn + 1 ]_vars

\* A reconnect is under way or bound to start: a task is in backoff,
\* connecting or in its handshake, or it waits on a connection that is no
\* longer open and will fail.
ReconnectPending ==
    IF impl = "extension"
    THEN \/ InBackoff
         \/ lpc \in { "start", "connecting", "handshake" }
         \/ lpc \in { "recv", "send_text" } /\ conns[lws] # "open"
    ELSE \/ kstart # "idle"
         \/ klisten # << >>

\* C10: after an audio send has failed, an unstopped session is never in a
\* state where connected is false and no reconnect is pending.
C10_SendFailureReconnects ==
    /\ (impl = "extension" /\ sendFailed /\ ~stopped /\ ~connected) => ReconnectPending
    /\ (impl = "client" /\ sendFailed /\ ~kclosed /\ ~kconnected) => ReconnectPending

\* C11: once on_stop has returned, no connection the session opened is still
\* open (none is left over, and none is opened afterwards).
C11_StopReleasesTransport ==
    (impl = "extension" /\ spc = "done") =>
        \A c \in 1..Len(conns) : conns[c] # "open"

\* A step of on_audio_frame in which ws.send is called on self.ws: the frame
\* is accepted and fills a chunk, or the pending send returned and another
\* chunk is in the buffer.
ExtensionSendCalled ==
    \/ \E n \in 1..MaxInputs, sid \in StreamIds :
           /\ OnAudioFrame(n, TRUE, sid)
           /\ ws # 0
           /\ connected
           /\ Len(buffer) + n >= chunk_size
    \/ /\ AudioSendDone
       /\ conns[aws] = "open"
       /\ Len(buffer) >= chunk_size
\* A step of the client in which ws.send or ws.recv is called on self.ws.
ClientSendCalled == kconnected /\ \E n \in 1..MaxInputs : KSend(n)
ClientRecvCalled ==
    \E i \in 1..Len(klisten) :
        /\ klisten[i].pc \in { "new", "cb" }
        /\ kconnected
        /\ KListenRun(i)

\* C12: once on_stop has been called, and while close() releases the
\* connection of the client, no step calls send or
\* recv on a connection that has been closed or on the cleared reference: the
\* producer path and the receive loop are cancelled before the connection is
\* released.
C12_NoCallAfterClose ==
    [][ /\ (stopped /\ ExtensionSendCalled) => (ws # 0 /\ conns[ws] # "closed")
        /\ (impl = "extension" /\ stopped /\ lpc' = "recv" /\ (lpc # "recv" \/ nrecv' # nrecv)) =>
               (lws' # 0 /\ conns[lws'] # "closed")
        /\ (kclose = "closing" /\ ClientSendCalled) => (kws # 0 /\ conns[kws] # "closed")
        /\ (kclose = "closing" /\ ClientRecvCalled) => (kws # 0 /\ conns[kws] # "closed") ]_vars

\* C13: stop and close are safe with no connection and idempotent. on_stop
\* and close() called while no connection is held return at once, touch no
\* connection and write nothing; a repeated call changes no field; and when
\* the call returns the connection is released and the session is not
\* connected.
C13_CloseIdempotent ==
    [][ /\ (OnStop /\ ws = 0) =>
               /\ spc' = "done"
               /\ ~connected'
               /\ UNCHANGED << conns, sent, ws, buffer, last_text >>
        /\ (OnStop /\ ws = 0 /\ stopped /\ ~client) =>
               UNCHANGED << extVars, listenVars, audioVars, worldVars >>
        /\ StopClosed => (stopped' /\ ws' = 0 /\ ~client' /\ ~connected')
        /\ KClose => ~kconnected'
        /\ (KClose /\ kws = 0) =>
               /\ kclose' = "idle"
               /\ UNCHANGED << kws, kstart, klisten, ksend, worldVars >>
        /\ (KClose /\ kws = 0 /\ ~kconnected) => UNCHANGED << kconnected, kclose >>
        /\ KCloseDone => (kws' = 0 /\ kconnected' = kconnected) ]_vars

\* The connections the session opened that neither side has closed.
LiveConnections == { c \in 1..Len(conns) : conns[c] = "open" }

\* C14: the session never has more than one live connection: a connection
\* is closed before the next one is opened.
C14_OneLiveConnection == Cardinality(LiveConnections) <= 1

\* A whole frame, built with one of the five message types, has been decoded.
DecodedWhole == cout.on /\ ~cin.truncated /\ cin.message_type # UNKNOWN_TYPE
\* parse_response read the type, flags, serialization and compression nibbles
\* the encoder wrote.
NibblesRecovered ==
    /\ cout.message_type = cin.message_type
    /\ cout.flags = cin.flags
    /\ cout.serialization_method = cin.serial_method
    /\ cout.message_compression = cin.compression_type
\* parse_response returned the payload the frame was built from.
PayloadRecovered ==
    /\ cout.raised = ""
    /\ cout.result.has_payload
    /\ cout.result.payload_msg = cin.payload

FrameBuilt == cin.on /\ ~cin.truncated
\* the offset at which parse_response takes the payload to begin (line 73)
PayloadOffset(res) == (res[1] % 16) * 4

\* C16: the header generate_header produces is 4 times as long as the word
\* count in the low nibble of its first byte, the high nibble is the
\* version, and what parse_response takes for the payload is what follows
\* the header: the length word and the payload bytes.
C16_HeaderLength ==
    FrameBuilt =>
        /\ Len(cin.header) = PayloadOffset(cin.header)
        /\ cin.header[1] \div 16 = PROTOCOL_VERSION
        /\ Drop(cframe, PayloadOffset(cframe)) =
               ToBytes4(Len(cin.payload_bytes)) \o cin.payload_bytes

\* The header size the first byte declares is more than the bytes at hand.
HeaderExceeds(res) == Len(res) >= 1 /\ PayloadOffset(res) > Len(res)
\* The payload size a server frame declares (its first word in a full
\* response, its second in an ack or an error response) is more than the
\* bytes that follow it.
PayloadExceeds(res) ==
    /\ Len(res) >= 4
    /\ LET kind == MessageKind(res[2] \div 16)
           payload == Drop(res, PayloadOffset(res))
           words == IF kind = "full" THEN 4 ELSE 8
           declared == IF kind = "full" THEN FromBytesSigned(Take(payload, 4))
                       ELSE FromBytes(Take(Drop(payload, 4), 4))
       IN  /\ kind # "none"
           /\ Len(payload) >= words
           /\ declared > Len(payload) - words

\* C17: parse_response raises, and returns no result, on every frame whose
\* declared header size or payload size exceeds the bytes present (any
\* exception is counted as the failure).
C17_MalformedRejected ==
    (cout.on /\ (HeaderExceeds(cframe) \/ PayloadExceeds(cframe))) => cout.raised # ""

\* The message-type nibble of the bytes decoded names none of the three
\* server message types.
UnrecognizedType ==
    cframe[2] \div 16 \notin { SERVER_FULL_RESPONSE, SERVER_ACK, SERVER_ERROR_RESPONSE }

\* C18 (as amended): on every buffer that holds at least the four fixed
\* header bytes and whose message-type nibble is neither full-response nor
\* ack nor error-response, parse_response returns without raising, and the
\* result holds neither seq nor code nor a payload.
C18_UnknownTypeAmended ==
    (cout.on /\ Len(cframe) >= 4 /\ UnrecognizedType) =>
        (cout.raised = "" /\ cout.result = EmptyResult)

\* C18 witness: a frame of a message type that is not defined, with a
\* gzip-compressed JSON payload of two bytes, was decoded.
C18_Witness ==
    /\ cout.on
    /\ ~cin.truncated
    /\ cin.message_type = UNKNOWN_TYPE
    /\ cin.serial_method = JSON
    /\ cin.compression_type = GZIP
    /\ Len(cin.payload) = 2
    /\ cout.message_type = UNKNOWN_TYPE
    /\ cout.result = EmptyResult

\* C18 as written: on every buffer that has a message-type nibble, and this
\* one neither full-response nor ack nor error-response, parse_response
\* returns without raising, and the result holds neither seq nor code nor a
\* payload.
C18_UnknownTypeOriginal ==
    (cout.on /\ Len(cframe) >= 2 /\ UnrecognizedType) =>
        (cout.raised = "" /\ cout.result = EmptyResult)

\* on_start has run and found a credential missing: it created no task.
ConfigMissing == impl = "extension" /\ started /\ ntasks = 0

\* No connection was ever attempted and nothing was taken in or given out.
NeverStarted ==
    /\ ~client
    /\ ~connected
    /\ ws = 0
    /\ reqid = 0
    /\ lpc = "idle"
    /\ apc = "idle"
    /\ conns = << >>
    /\ sent = << >>
    /\ buffer = << >>
    /\ nextReq = 1
    /\ nevents = 0

\* C19: an on_start that finds api_key, token or cluster missing sets no
\* client and creates no task; from then on no connection is ever attempted
\* (no reqid drawn, no connection opened, nothing written), connected and ws
\* stay unset, and every audio frame is rejected: nothing is buffered, nothing
\* is sent and the stream id is not taken.
C19_ConfigErrorNeverStarts ==
    [][ /\ (\A k \in Credentials, t \in Credentials, c \in Credentials, b \in BitsChoices :
              ((OnStart(k, t, c, b) /\ (k = "" \/ t = "" \/ c = "")) => ConfigMissing'))
        /\ (ConfigMissing => ConfigMissing')
        /\ (ConfigMissing' => NeverStarted')
        /\ ((ConfigMissing /\ audioIn' > audioIn) =>
               /\ rejected'
               /\ buffer' = buffer
               /\ sent' = sent
               /\ stream_id' = stream_id) ]_vars

\* C19 witness: on_start found a credential missing, two audio frames of one
\* byte came afterwards, and the session was stopped.
C19_Witness ==
    /\ ConfigMissing
    /\ audioIn = 2
    /\ rejected
    /\ stopped
    /\ buffer = << >>
    /\ sent = << >>

\* C20: a send() of the client called while connected is false returns at
\* once (no send is pending afterwards), writes nothing and changes no field
\* of the client; an on_audio_frame of the extension called while connected
\* is false writes nothing and changes no field of the extension; and no step
\* taken while connected is false adds an audio frame to what was written.
C20_SendFailsWhenNotConnected ==
    [][ /\ (\A n \in 1..MaxInputs :
              ((KSend(n) /\ ~kconnected) =>
                  /\ ksend' = "idle"
                  /\ rejected'
                  /\ clientVars' = clientVars
                  /\ worldVars' = worldVars))
        /\ (\A n \in 0..MaxInputs, h \in BOOLEAN, sid \in StreamIds :
              ((OnAudioFrame(n, h, sid) /\ ~connected) =>
                  /\ apc' = "idle"
                  /\ rejected' = (rejected \/ n > 0)
                  /\ extensionVars' = extensionVars
                  /\ worldVars' = worldVars))
        /\ ((impl = "extension" /\ ~connected) => AudioSent' = AudioSent)
        /\ ((impl = "client" /\ ~kconnected) => AudioSent' = AudioSent) ]_vars

\* C20 witness: the extension holds a socket whose send failed, so that
\* connected is false, and an audio frame that came then was turned away.
C20_Witness ==
    /\ impl = "extension"
    /\ ws # 0
    /\ ~connected
    /\ sendFailed
    /\ rejected
    /\ apc = "idle"
    /\ Len(AudioSent) = 1
    /\ audioIn = 3

\* The frame received by this step is an ack.
AckReceived == nrecv' = nrecv + 1 /\ lres'.message_type = SERVER_ACK
\* The frame received by this step is a full response whose payload is an
\* object without a 'result' key.
NoResultReceived ==
    /\ nrecv' = nrecv + 1
    /\ lres'.message_type = SERVER_FULL_RESPONSE
    /\ lres'.decodes
    /\ lres'.json.isdict
    /\ lres'.json.result.kind = "absent"
\* The step hands no event to the consumer and leaves last_text and the
\* connection state as they are (in the client: unless close() has taken
\* the socket away under the loop); no reconnect is started.
FrameIgnored ==
    /\ lpc' # "send_text"
    /\ lpend' = lpend
    /\ outVars' = outVars
    /\ last_text' = last_text
    /\ connected' = connected
    /\ ws' = ws
    /\ kws # 0 => kconnected' = kconnected
    /\ kws' = kws
    /\ conns' = conns
    /\ failVars' = failVars

\* C21: a step that receives an ack frame, or a full response whose payload
\* has no result key, produces no transcript event and leaves last_text and
\* the connection state unchanged.
C21_AckAndNoResultIgnored ==
    [][ (AckReceived \/ NoResultReceived) => FrameIgnored ]_vars

\* C22: an event handed to send_data carries the value of self.stream_id at
\* that moment, and it is the event the consumer gets; self.stream_id is -1
\* until an audio frame is taken in, changes only to the stream id of an
\* audio frame taken in, and no received frame alters it.
C22_EventStreamId ==
    [][ /\ ((lpc # "send_text" /\ lpc' = "send_text") =>
               (lpend'.stream_id = stream_id /\ stream_id' = stream_id))
        /\ ((impl = "extension" /\ nevents' = nevents + 1) => last_event' = lpend)
        /\ (nrecv' = nrecv + 1 => stream_id' = stream_id)
        /\ (stream_id' # stream_id =>
               (audioIn' > audioIn /\ stream_id' \in StreamIds))
        /\ ((audioIn = 0 /\ audioIn' = 0) => stream_id' = -1) ]_vars

\* C22 witness: after an audio frame of stream 2 was taken in, an event was
\* delivered with stream id 2.
C22_Witness ==
    /\ impl = "extension"
    /\ nevents = 1
    /\ stream_id = 2
    /\ last_event.stream_id = 2

\* The failures the task has caught while the session was not stopped, and
\* the runs of _start_listen so far (each draws a reqid).
Failures == nfailIn + nfailOut
Attempts == nextReq - 1

\* C23: while the session is not stopped, the k-th run of the task that has
\* failed (in its connection attempt or in its receive loop), for whatever
\* k, is followed by a further connection attempt: the task never ends in a
\* state in which it has given up. (The model stops drawing inputs at
\* MaxInputs.)
C23_RetryForever ==
    \A k \in 1..MaxInputs :
        (impl = "extension" /\ Failures = k /\ Attempts = k) ~>
            \/ lpc = "connecting" /\ Attempts = k + 1
            \/ stopped
            \/ Used >= MaxInputs

\* C23 witness: the task is connecting for the third time, after a failed
\* connection attempt and a failure of the receive loop, the session not
\* stopped.
C23_Witness ==
    /\ impl = "extension"
    /\ ~stopped
    /\ nfailOut = 1
    /\ nfailIn = 1
    /\ lpc = "connecting"
    /\ Attempts = 3

\* The frame received by this step does not decode: parse_response raises.
UndecodableReceived == nrecv' = nrecv + 1 /\ ParseFrame(lres').raised

\* C24: a step that receives a frame that does not decode, the session not
\* stopped, leaves the receive loop waiting on the same connection, starts
\* no reconnect, and leaves connected and last_text as they are.
C24_MalformedHandledLocally ==
    [][ /\ (UndecodableReceived /\ impl = "extension" /\ ~stopped) =>
               /\ lpc' = "recv"
               /\ lws' = lws
               /\ failVars' = failVars
               /\ connected' = connected
               /\ last_text' = last_text
        /\ (UndecodableReceived /\ impl = "client" /\ kconnected /\ kws # 0) =>
               /\ Len(klisten') = Len(klisten)
               /\ kconnected' = kconnected ]_vars

\* C25: the audio queue of the Soniox extension never holds more than a
\* fixed number of frames: with the host delivering up to MaxFrames frames,
\* the queue holds fewer than that (a frame was dropped, or the producer
\* held back, before the queue took them all).
C25_QueueBounded ==
    impl = "soniox" => Len(audio_queue) < MaxFrames

\* This step writes a frame; the frame it writes.
FrameWritten == Len(sent') = Len(sent) + 1
NewFrame == sent'[Len(sent')]
\* No frame has been written to connection c so far.
NothingSentOn(c) == \A i \in 1..Len(sent) : sent[i].conn # c
\* The send of the initial frame on connection c has not returned yet.
InitialSendPending(c) ==
    \/ lpc = "handshake" /\ lws = c
    \/ kstart = "handshake" /\ kstartws = c

\* C26: the first frame written to a connection is the full client request,
\* and no audio-only frame is written to a connection while the send of its
\* initial frame has not returned.
C26_ConfigFrameFirst ==
    [][ FrameWritten =>
           /\ NothingSentOn(NewFrame.conn) =>
                  HeaderMessageType(NewFrame.header) = CLIENT_FULL_REQUEST
           /\ IsAudioFrame(NewFrame) => ~InitialSendPending(NewFrame.conn) ]_vars

\* The step belongs to the chunker path: on_audio_frame up to its await or
\* the return of its pending send; for the client, send().
ChunkerStep ==
    \/ audioIn' # audioIn
    \/ apc' # apc
    \/ ksend' # ksend
    \/ FrameWritten /\ IsAudioFrame(NewFrame)
\* The step belongs to the reconciler path: the receive loop from a received
\* frame to the delivery of its event.
ReconcilerStep == lpc \in { "recv", "send_text" } /\ ~ChunkerStep

\* C27: connected is written only by the connect/receive/stop path, buffer
\* only by the chunker path and last_text only by the reconciler path.
C27_SingleWriter ==
    [][ /\ (connected' # connected \/ kconnected' # kconnected) => ~ChunkerStep
        /\ buffer' # buffer => ChunkerStep
        /\ last_text' # last_text => ReconcilerStep ]_vars

\* The chunks yielded so far, concatenated in order.
RECURSIVE Concatenated(_)
Concatenated(pairs) ==
    IF pairs = << >> THEN << >>
    ELSE Concatenated(SubSeq(pairs, 1, Len(pairs) - 1)) \o pairs[Len(pairs)].chunk
SliceExhausted == impl = "slicer" /\ slicer.pc = "done"

\* C28: for chunk_size >= 1, slice_data yields finitely many pairs; every
\* pair before the final one is unmarked and has exactly chunk_size bytes;
\* once the generator is exhausted the chunks concatenated equal data, the
\* final chunk has at most chunk_size bytes and it alone is marked last.
C28_SliceData ==
    (impl = "slicer" /\ slicer.pc # "none") =>
        /\ Len(slices) <= Len(slicer.data) + 1
        /\ \A i \in 1..Len(slices) :
               /\ Len(slices[i].chunk) <= slicer.chunk_size
               /\ slices[i].last = (slicer.pc = "done" /\ i = Len(slices))
               /\ ~slices[i].last => Len(slices[i].chunk) = slicer.chunk_size
        /\ Concatenated(slices) = SubSeq(slicer.data, 1, slicer.offset)
                                     \o (IF slicer.pc = "done"
                                         THEN SubSeq(slicer.data, slicer.offset + 1, Len(slicer.data))
                                         ELSE << >>)
        /\ slicer.pc = "done" => /\ Len(slices) >= 1
                                 /\ Concatenated(slices) = slicer.data
C28_Witness ==
    /\ SliceExhausted
    /\ Len(slices) = 3
    /\ Len(slices[3].chunk) < slicer.chunk_size

\* The text of the event most recently delivered, empty when there is none.
LastDeliveredText == IF nevents = 0 THEN Empty ELSE last_event.text

\* C29: last_text is the text of the transcript event most recently
\* delivered to the consumer, or empty when none has been delivered.
C29_LastTextWasDelivered == impl = "extension" => last_text = LastDeliveredText

\* The _listen tasks that have not ended, and those suspended in recv.
LiveLoops == { i \in 1..Len(klisten) : TRUE }
Receiving == { i \in 1..Len(klisten) : klisten[i].pc = "recv" }

\* C30: at most one receive loop is alive at any time, and no two loops are
\* suspended in recv on the same connection.
C30_OneReceiveLoop ==
    /\ Cardinality(LiveLoops) <= 1
    /\ \A i \in Receiving, j \in Receiving :
           klisten[i].conn = klisten[j].conn => i = j

\* The step invokes the client's 'result' callback.
ResultCallbackInvoked == impl = "client" /\ nevents' = nevents + 1

\* C31: once close() has been called, and until start() is called again, no
\* step invokes the 'result' callback.
C31_NoResultAfterClose == [][ kdown => ~ResultCallbackInvoked ]_vars

\* Every audio frame written so far carries exactly chunk_size bytes of audio.
ChunksExact == \A i \in 1..Len(AudioSent) : Len(Gunzip(AudioSent[i].payload)) = chunk_size
\* The step is one of on_audio_frame of a configured extension, and the
\* invocation returns in it.
InvocationReturns == impl = "extension" /\ client /\ ChunkerStep /\ apc' = "idle"
\* A send raises in the step: the handler clears connected.
SendRaises == connected /\ ~connected'
\* The step is from an invocation that took its frame into the buffer: it
\* passes the guards of lines 163-175, or resumes from a send.
FrameTaken ==
    \/ apc = "sending"
    \/ ~NotConnected /\ \E n \in 1..MaxInputs, sid \in StreamIds : OnAudioFrame(n, TRUE, sid)

\* C32 (as stated): every audio chunk sent carries exactly chunk_size bytes,
\* and whenever an invocation of on_audio_frame returns without a send
\* failure, fewer than chunk_size bytes remain in the buffer.
C32_SlicingOriginal ==
    [][ /\ impl = "extension" => ChunksExact'
        /\ (InvocationReturns /\ ~SendRaises) => Len(buffer') < chunk_size ]_vars

\* C32 (as amended): every audio chunk sent carries exactly chunk_size bytes,
\* and whenever an invocation of on_audio_frame that took its frame into the
\* buffer returns without a send failure, fewer than chunk_size bytes remain.
C32_SlicingAmended ==
    [][ /\ impl = "extension" => ChunksExact'
        /\ (InvocationReturns /\ FrameTaken /\ ~SendRaises) => Len(buffer') < chunk_size ]_vars
C32_Witness ==
    /\ impl = "extension"
    /\ apc = "idle"
    /\ ~sendFailed
    /\ chunk_size = 2
    /\ Len(AudioSent) = 1
    /\ Len(buffer) = 1

\* The bytes the slicing loop has at hand when the step begins: the buffer
\* and the frame the host delivers in the step.
BytesAtHand == Len(buffer) + (audioIn' - audioIn)

\* C33: every iteration of the slicing loop of on_audio_frame that sends a
\* chunk strictly shrinks the buffer, for every configuration, those with a
\* computed chunk_size of 0 included, so that on_audio_frame terminates.
C33_LoopShrinksBuffer ==
    [][ (impl = "extension" /\ FrameWritten /\ IsAudioFrame(NewFrame)) =>
            Len(buffer') < BytesAtHand ]_vars

\* The step in which iter_audio yields a frame, and the one in which it
\* yields the terminating empty chunk.
FrameYielded == staken' = staken + 1
TerminatorYielded == sthread # "ended" /\ sthread' = "ended"

\* C34: iter_audio yields the queued frames oldest first, and when it yields
\* the terminating empty chunk every frame that was enqueued, the one that
\* carries end_of_speech included, has been yielded.
C34_QueueDrained ==
    [][ /\ FrameYielded =>
               \A i \in 1..Len(audio_queue') : audio_queue'[i].id > Head(audio_queue).id
        /\ TerminatorYielded => audio_queue' = << >> ]_vars

====
